---------------------------- MODULE Spec2Model ----------------------------
(***************************************************************************)
(* Routing simulation engine (src/src/routing_simulation.py).              *)
(*                                                                         *)
(* The three assignment strategies (assign_fcfs, assign_nearest,           *)
(* assign_capacity_aware), the execution simulator (simulate_strategy)     *)
(* and SimulationResult.to_dict, as a state machine: one step per call     *)
(* and per iteration of the loops of the source.                           *)
(*                                                                         *)
(* Conventions of the model                                                *)
(*  - a timestamp is a number of minutes since 00:00 of a reference day 0; *)
(*    datetime.min is a value below every trip time;                       *)
(*  - a location is a mile marker on one meridian: for two points of the   *)
(*    same longitude the haversine formula reduces to R * |dlat|, so the   *)
(*    distance between two markers is the difference of the markers;       *)
(*  - a float that is a ratio (a mean, passengers / capacity) is the       *)
(*    fraction in lowest terms [num, den];                                 *)
(*  - a possibly missing number (NaN) is <<>> and a present one is <<v>>;  *)
(*  - numpy's global generator is the pair [seed, pos]: the seed last set  *)
(*    and the number of draws since.                                       *)
(***************************************************************************)
EXTENDS Integers, Sequences, FiniteSets, TLC

(***************************************************************************)
(* Bounds of the model.                                                    *)
(***************************************************************************)
MaxTrips == 2

\* Trips of a table that keeps a whole pool busy.
MaxBusyTrips == 3

(***************************************************************************)
(* Program constants.                                                      *)
(***************************************************************************)
RANDOM_SEED == 42
datetime_min == -1
avg_speed_mph == 25
DefaultTripDuration == 30
TurnaroundBuffer == 10
TooSmallPenalty == 1000
OnTimeThreshold == 10
OperatingStartHour == 6

MinutesPerHour == 60
MinutesPerDay == 24 * MinutesPerHour

(***************************************************************************)
(* Arithmetic helpers.                                                     *)
(***************************************************************************)
Max(a, b) == IF a >= b THEN a ELSE b

Abs(a) == IF a >= 0 THEN a ELSE 0 - a

RECURSIVE GCD(_, _)
GCD(a, b) == IF b = 0 THEN a ELSE GCD(b, a % b)

\* The value n / d (d > 0, n >= 0) in lowest terms.
Frac(n, d) == LET g == GCD(n, d) IN [num |-> n \div g, den |-> d \div g]

FracAdd(x, y) == Frac(x.num * y.den + y.num * x.den, x.den * y.den)

FracLeq(x, y) == x.num * y.den <= y.num * x.den

FracTimes(x, k) == Frac(x.num * k, x.den)

FracOver(x, k) == Frac(x.num, x.den * k)

RECURSIVE FracSum(_)
FracSum(s) == IF s = <<>> THEN Frac(0, 1) ELSE FracAdd(Head(s), FracSum(Tail(s)))

RECURSIVE IntSum(_)
IntSum(s) == IF s = <<>> THEN 0 ELSE Head(s) + IntSum(Tail(s))

\* np.mean of a non-empty list of floats.
np_mean(s) == FracOver(FracSum(s), Len(s))

\* Python's round(x, 0) of the non-negative x = n / d: to the nearest integer,
\* a tie to the even one.
RoundHalfEven(n, d) ==
    LET q == n \div d
        r == n % d
    IN  IF 2 * r < d THEN q
        ELSE IF 2 * r > d THEN q + 1
        ELSE IF q % 2 = 0 THEN q ELSE q + 1

\* Python's round(x, 2) of the non-negative fraction x.
round2(x) == Frac(RoundHalfEven(x.num * 100, x.den), 100)

(***************************************************************************)
(* Dates and times.                                                        *)
(***************************************************************************)
\* datetime.date(): the day a timestamp falls on.
date(t) == t \div MinutesPerDay

\* Mutant of replace_6am: the operating day starts at noon.
replace_6am_noon(t) == date(t) * MinutesPerDay + 2 * OperatingStartHour * MinutesPerHour

\* t.replace(hour=6, minute=0, second=0, microsecond=0)
replace_6am(t) == date(t) * MinutesPerDay + OperatingStartHour * MinutesPerHour

\* Mutant of start_time: an hour before the first trip, whatever the hour.
start_time_hour_before(t) == t - MinutesPerHour

\* max(t - timedelta(hours=1), t.replace(hour=6, ...)): the clock a driver
\* starts a day with, for a first trip scheduled at t.
start_time(t) == Max(t - MinutesPerHour, replace_6am(t))

(***************************************************************************)
(* utils.haversine_distance, in miles, of two mile markers of a meridian.  *)
(***************************************************************************)
haversine_distance(a, b) == Abs(b - a)

(***************************************************************************)
(* Sequences.                                                              *)
(***************************************************************************)
Range(s) == {s[k] : k \in DOMAIN s}

\* DataFrame.sort_values(key) as a permutation of the row numbers: rows in
\* non-decreasing key, rows of equal key in their order in the table (what
\* numpy's sort does on a table this small).
sort_values(keys) ==
    LET n == Len(keys)
        pos(r) == Cardinality({q \in 1..n : keys[q] < keys[r] \/ (keys[q] = keys[r] /\ q < r)}) + 1
    IN  [p \in 1..n |-> CHOOSE r \in 1..n : pos(r) = p]

\* min(seq, key=score.get): the first element of seq with the least score.
\* Python raises ValueError on an empty seq; callers test for it first.
min_by(seq, score) ==
    LET k == CHOOSE k \in DOMAIN seq :
                 /\ \A m \in DOMAIN seq : score[seq[k]] <= score[seq[m]]
                 /\ \A m \in 1..(k - 1) : score[seq[m]] > score[seq[k]]
    IN  seq[k]

(***************************************************************************)
(* numpy's global random generator.                                        *)
(***************************************************************************)
\* utils.set_seed / np.random.seed: the stream restarts for the seed.
set_seed(seed) == [seed |-> seed, pos |-> 0]

\* The number a generator state yields next: a fixed function of the seed and
\* of the position in the stream (a stand-in for the Mersenne Twister).
raw(g) == g.seed + g.pos

\* The standard normal deviate drawn from a state: one of -1, 0, 1.
std_normal(g) == (raw(g) % 3) - 1

\* np.random.normal(1.0, sigma), in percent, for sigma given in percent.
np_random_normal(g, sigmaPct) == 100 + sigmaPct * std_normal(g)

\* np.random.uniform(33.2, 33.7) for a latitude: one of the two places.
np_random_uniform(g) == 25 * (raw(g) % 2)

\* np.random.choice([2, 4, 6])
np_random_choice(g) == <<2, 4, 6>>[(raw(g) % 3) + 1]

\* The generator after n draws.
skip(g, n) == [g EXCEPT !.pos = @ + n]

\* The generator after one draw.
advance(g) == skip(g, 1)

(***************************************************************************)
(* Input domains.  A trip table is a sequence of at most maxTrips rows of  *)
(* a profile, with trip_id = row number; each row takes its columns from   *)
(* the sets of the profile.                                                *)
(***************************************************************************)
DriverIds == <<"DRV_0000", "DRV_0001">>

StrategyNames == {"FCFS", "Nearest", "Capacity-Aware"}

NaN == <<>>

notna(x) == x # NaN

TripRows(P) ==
    [requested_lead : P.leads,
     scheduled_pickup_time : P.times,
     pickup_lat : P.pickups,
     dropoff_lat : P.dropoffs,
     distance_miles : P.miles,
     trip_duration_minutes : P.durations,
     num_passengers : P.passengers,
     is_cancelled : P.cancelled]

MakeTrip(k, row) ==
    [trip_id |-> k,
     requested_pickup_time |-> row.scheduled_pickup_time - row.requested_lead,
     scheduled_pickup_time |-> row.scheduled_pickup_time,
     pickup_lat |-> row.pickup_lat,
     dropoff_lat |-> row.dropoff_lat,
     distance_miles |-> row.distance_miles,
     trip_duration_minutes |-> row.trip_duration_minutes,
     num_passengers |-> row.num_passengers,
     is_cancelled |-> row.is_cancelled]

TripTables(P) ==
    UNION {{[k \in 1..n |-> MakeTrip(k, rows[k])] : rows \in [1..n -> TripRows(P)]} :
           n \in P.minTrips..P.maxTrips}

DriverPools(P) == {SubSeq(DriverIds, 1, n) : n \in P.pools}

VARIABLES
    mode,                \* "direct": the functions are called one by one;
                         \* "comparison": run_simulation_comparison calls them
    seed,                \* run_simulation_comparison's seed argument
    num_drivers,         \* run_simulation_comparison's num_drivers argument
    tables,              \* the tables run_simulation_comparison has returned
    trips,               \* the trip table (never written)
    drivers,             \* the driver pool, a list
    initial_locations,   \* the caller's driver -> location dict
    driver_capacities,   \* the caller's driver -> capacity dict
    add_noise,           \* simulate_strategy's add_noise argument
    pc,                  \* where the program is
    strategy,            \* the strategy called last
    order,               \* that call's sorted table, as row numbers of trips
    i,                   \* the next row of order its loop handles
    driver_available_at, \* the strategy's dict
    driver_locations,    \* assign_nearest's driver_locations argument
    assignments,         \* the assignment table built so far / returned
    picks,               \* one record per assignment made: what the loop saw
    rng,                 \* numpy's global generator
    sim,                 \* simulate_strategy's locals
    obs,                 \* one record per trip the simulation has replayed
    result,              \* the SimulationResult returned last
    results,             \* the to_dict rows collected
    history,             \* one record per completed run
    raised               \* the exception that ended the program, or ""

inputVars == <<mode, seed, num_drivers, tables, trips, drivers, driver_capacities, add_noise>>
asgVars == <<strategy, order, i, driver_available_at, driver_locations, assignments, picks>>
simVars == <<rng, sim, obs, result>>
vars == <<mode, seed, num_drivers, tables, trips, drivers, initial_locations, driver_capacities, add_noise, pc,
          strategy, order, i, driver_available_at, driver_locations, assignments, picks,
          rng, sim, obs, result, results, history, raised>>

NoResult == <<>>

NoSim == [strategy_name |-> "", active |-> <<>>, groups |-> <<>>, g |-> 1, j |-> 1,
          current_loc |-> 0, current_time |-> 0,
          total_miles |-> 0, total_idle_minutes |-> 0, total_duration |-> 0,
          all_delays |-> <<>>, all_utilizations |-> <<>>, resim |-> FALSE]

\* Mutant of fresh_available_at: the dict of the previous call is kept.
stale_available_at(pool) ==
    [d \in Range(pool) |->
        IF d \in DOMAIN driver_available_at THEN driver_available_at[d] ELSE datetime_min]

\* driver_available_at = {d: datetime.min for d in drivers}
fresh_available_at(pool) == [d \in Range(pool) |-> datetime_min]

\* What no call has written yet.
Untouched ==
    /\ tables = <<>>
    /\ pc = "ready"
    /\ strategy = ""
    /\ order = <<>>
    /\ i = 1
    /\ assignments = <<>>
    /\ picks = <<>>
    /\ rng = set_seed(RANDOM_SEED)
    /\ sim = NoSim
    /\ obs = <<>>
    /\ result = NoResult
    /\ results = <<>>
    /\ history = <<>>
    /\ raised = ""

\* A caller with a trip table, a pool and the two dicts, about to call a
\* strategy and simulate_strategy itself.
InitDirect(P) ==
    /\ mode = "direct"
    /\ seed = RANDOM_SEED
    /\ trips \in TripTables(P)
    /\ drivers \in DriverPools(P)
    /\ num_drivers = Len(drivers)
    /\ initial_locations \in [Range(drivers) -> P.locations]
    /\ driver_capacities \in [Range(drivers) -> P.capacities]
    /\ add_noise \in P.noise
    /\ driver_available_at = [d \in Range(drivers) |-> datetime_min]
    /\ driver_locations = initial_locations
    /\ Untouched

\* A caller about to call run_simulation_comparison(trips, num_drivers, seed);
\* simulate_strategy then runs with its default add_noise=True.
InitComparison(P) ==
    /\ mode = "comparison"
    /\ seed \in P.seeds
    /\ trips \in TripTables(P)
    /\ num_drivers \in P.pools
    /\ drivers = <<>>
    /\ initial_locations = <<>>
    /\ driver_capacities = <<>>
    /\ add_noise = TRUE
    /\ driver_available_at = <<>>
    /\ driver_locations = <<>>
    /\ Untouched

(***************************************************************************)
(* The assignment strategies.                                              *)
(***************************************************************************)
\* Mutant of passes_copy: assign_nearest always works on the caller's own dict.
passes_copy_never(m) == FALSE

\* Whether assign_nearest is handed a copy of the caller's location dict:
\* run_simulation_comparison passes initial_locations.copy(), a direct caller
\* passes its dict.
passes_copy(m) == m = "comparison"

\* Mutant of tracked_location: the driver is left at the pickup point.
tracked_location_pickup(trip) == trip.pickup_lat

\* driver_locations[assigned_driver] = (trip["dropoff_lat"], trip["dropoff_lng"])
tracked_location(trip) == trip.dropoff_lat

\* Mutant of sort_column: every strategy sorts by the scheduled time.
sort_column_scheduled(s, trip) == trip.scheduled_pickup_time

\* The column a strategy sorts the table by.
sort_column(s, trip) ==
    IF s = "FCFS" THEN trip.requested_pickup_time ELSE trip.scheduled_pickup_time

\* Mutant of sorted_rows: the strategy drops the cancelled trips before it sorts.
sorted_rows_active(s, table) ==
    SelectSeq(sort_values([k \in DOMAIN table |-> sort_column(s, table[k])]),
              LAMBDA r : ~table[r].is_cancelled)

\* trips.sort_values(column), as row numbers of the table.
sorted_rows(s, table) == sort_values([k \in DOMAIN table |-> sort_column(s, table[k])])

\* [d for d, t in driver_available_at.items() if t <= trip["scheduled_pickup_time"]]
\* (the dict iterates in the order of the pool it was built from).
available_drivers(pool, avail_at, trip) ==
    SelectSeq(pool, LAMBDA d : avail_at[d] <= trip.scheduled_pickup_time)

\* The candidates of assign_nearest and assign_capacity_aware.
candidates(pool, avail_at, trip) ==
    IF available_drivers(pool, avail_at, trip) = <<>>
    THEN pool
    ELSE available_drivers(pool, avail_at, trip)

\* Mutant of fcfs_driver: no fallback when every driver is busy.
fcfs_driver_no_fallback(pool, avail_at, trip) ==
    IF available_drivers(pool, avail_at, trip) = <<>>
    THEN "None"
    ELSE available_drivers(pool, avail_at, trip)[1]

\* Mutant of fcfs_driver: the fallback is the first driver of the pool.
fcfs_driver_first_of_pool(pool, avail_at, trip) ==
    IF available_drivers(pool, avail_at, trip) = <<>>
    THEN pool[1]
    ELSE available_drivers(pool, avail_at, trip)[1]

\* assign_fcfs's choice for one trip, for a non-empty pool.
fcfs_driver(pool, avail_at, trip) ==
    IF available_drivers(pool, avail_at, trip) = <<>>
    THEN min_by(pool, avail_at)
    ELSE available_drivers(pool, avail_at, trip)[1]

\* Mutant of nearest_driver: the first candidate, whatever its distance.
nearest_driver_first(pool, avail_at, locs, trip) ==
    candidates(pool, avail_at, trip)[1]

\* assign_nearest's choice for one trip, for a non-empty pool.
nearest_driver(pool, avail_at, locs, trip) ==
    min_by(candidates(pool, avail_at, trip),
           [d \in Range(candidates(pool, avail_at, trip))
               |-> haversine_distance(locs[d], trip.pickup_lat)])

\* capacity_score of assign_capacity_aware.
capacity_score(cap, passengers) ==
    IF cap < passengers THEN TooSmallPenalty ELSE cap - passengers

\* assign_capacity_aware's choice for one trip, for a non-empty pool.
capacity_driver(pool, avail_at, caps, trip) ==
    min_by(candidates(pool, avail_at, trip),
           [d \in Range(candidates(pool, avail_at, trip))
               |-> capacity_score(caps[d], trip.num_passengers)])

\* The trip duration a strategy reckons with.
estimated_duration(trip) ==
    IF notna(trip.trip_duration_minutes)
    THEN trip.trip_duration_minutes[1]
    ELSE DefaultTripDuration

\* Mutant of finish_time: no 10 minutes between trips.
finish_time_no_buffer(trip) == trip.scheduled_pickup_time + estimated_duration(trip)

\* finish_time: when the assigned driver is free again.
finish_time(trip) ==
    trip.scheduled_pickup_time + estimated_duration(trip) + TurnaroundBuffer

assignment_row(trip, driver, s) ==
    [trip_id |-> trip.trip_id, assigned_driver |-> driver, strategy |-> s]

\* The trip the strategy's loop handles next.
next_trip == trips[order[i]]

\* What an iteration saw and chose: the trip's row, the dicts before the
\* update, and the driver assigned.
pick_record(driver) ==
    [trip |-> order[i],
     available |-> available_drivers(drivers, driver_available_at, next_trip),
     available_at |-> driver_available_at,
     locations |-> driver_locations,
     assigned_driver |-> driver]

\* Mutant of comparison_order: Nearest runs before FCFS.
comparison_order_swapped == <<"Nearest", "FCFS", "Capacity-Aware">>

\* The order run_simulation_comparison runs the strategies in.
comparison_order == <<"FCFS", "Nearest", "Capacity-Aware">>

\* A call of one of the three strategies with the caller's trips, pool and
\* dicts: the first call of a run, the same strategy called once more, or
\* the next call of run_simulation_comparison.
call_strategy(s) ==
    /\ raised = ""
    /\ \/ mode = "direct" /\ pc = "ready"
       \/ mode = "direct" /\ pc = "done" /\ Len(history) = 1 /\ s = strategy
       \/ /\ mode = "comparison" /\ pc = "compare"
          /\ Len(results) < Len(comparison_order)
          /\ s = comparison_order[Len(results) + 1]
    /\ strategy' = s
    /\ order' = sorted_rows(s, trips)
    /\ i' = 1
    /\ driver_available_at' = fresh_available_at(drivers)
    /\ driver_locations' = initial_locations
    /\ assignments' = <<>>
    /\ picks' = <<>>
    /\ pc' = "assign"
    /\ UNCHANGED <<inputVars, initial_locations, simVars, results, history, raised>>

\* min() of an empty sequence: every strategy raises on its first trip when
\* the pool is empty.
raise_empty_pool ==
    /\ pc = "assign"
    /\ i <= Len(order)
    /\ drivers = <<>>
    /\ pc' = "raised"
    /\ raised' = "ValueError"
    /\ UNCHANGED <<inputVars, initial_locations, asgVars, simVars, results, history>>

\* One iteration of assign_fcfs's loop.
assign_fcfs ==
    /\ pc = "assign" /\ strategy = "FCFS"
    /\ i <= Len(order)
    /\ drivers # <<>>
    /\ LET assigned_driver == fcfs_driver(drivers, driver_available_at, next_trip)
       IN  /\ driver_available_at' =
                  [driver_available_at EXCEPT ![assigned_driver] = finish_time(next_trip)]
           /\ assignments' = Append(assignments, assignment_row(next_trip, assigned_driver, "FCFS"))
           /\ picks' = Append(picks, pick_record(assigned_driver))
    /\ i' = i + 1
    /\ UNCHANGED <<inputVars, initial_locations, pc, strategy, order, driver_locations,
                   simVars, results, history, raised>>

\* One iteration of assign_nearest's loop.  driver_locations is the dict the
\* caller passed, so a direct caller sees the update in its own dict;
\* run_simulation_comparison passes initial_locations.copy().
assign_nearest ==
    /\ pc = "assign" /\ strategy = "Nearest"
    /\ i <= Len(order)
    /\ drivers # <<>>
    /\ LET assigned_driver == nearest_driver(drivers, driver_available_at, driver_locations, next_trip)
       IN  /\ driver_locations' =
                  [driver_locations EXCEPT ![assigned_driver] = tracked_location(next_trip)]
           /\ driver_available_at' =
                  [driver_available_at EXCEPT ![assigned_driver] = finish_time(next_trip)]
           /\ assignments' = Append(assignments, assignment_row(next_trip, assigned_driver, "Nearest"))
           /\ picks' = Append(picks, pick_record(assigned_driver))
    /\ initial_locations' = IF passes_copy(mode) THEN initial_locations ELSE driver_locations'
    /\ i' = i + 1
    /\ UNCHANGED <<inputVars, pc, strategy, order, simVars, results, history, raised>>

\* One iteration of assign_capacity_aware's loop.
assign_capacity_aware ==
    /\ pc = "assign" /\ strategy = "Capacity-Aware"
    /\ i <= Len(order)
    /\ drivers # <<>>
    /\ LET assigned_driver == capacity_driver(drivers, driver_available_at, driver_capacities, next_trip)
       IN  /\ driver_available_at' =
                  [driver_available_at EXCEPT ![assigned_driver] = finish_time(next_trip)]
           /\ assignments' = Append(assignments,
                                    assignment_row(next_trip, assigned_driver, "Capacity-Aware"))
           /\ picks' = Append(picks, pick_record(assigned_driver))
    /\ i' = i + 1
    /\ UNCHANGED <<inputVars, initial_locations, pc, strategy, order, driver_locations,
                   simVars, results, history, raised>>

(***************************************************************************)
(* simulate_strategy.                                                      *)
(***************************************************************************)
\* trips.merge(assignments, on="trip_id"): the inner join, in the order of
\* the trip table; a row is the trip's row number with the assignment's columns.
RECURSIVE merge(_, _, _)
merge(table, asg, k) ==
    IF k > Len(table) THEN <<>>
    ELSE LET matches == SelectSeq(asg, LAMBDA a : a.trip_id = table[k].trip_id)
         IN  [m \in 1..Len(matches) |->
                 [trip |-> k, assigned_driver |-> matches[m].assigned_driver]]
             \o merge(table, asg, k + 1)

\* Mutant of active_rows: the cancelled trips are kept.
active_rows_all(table, merged) == merged

\* merged[~merged["is_cancelled"]]
active_rows(table, merged) == SelectSeq(merged, LAMBDA r : ~table[r.trip].is_cancelled)

\* One group of active.groupby("assigned_driver"): the driver's rows sorted
\* by scheduled pickup time, as row numbers of the trip table.
driver_trips(table, active, d) ==
    LET rows == SelectSeq(active, LAMBDA r : r.assigned_driver = d)
        perm == sort_values([k \in DOMAIN rows |-> table[rows[k].trip].scheduled_pickup_time])
    IN  [p \in DOMAIN rows |-> rows[perm[p]].trip]

\* The groups of active.groupby("assigned_driver"), in the order of the keys.
groupby(table, active) ==
    LET keys == SelectSeq(DriverIds, LAMBDA d : \E k \in DOMAIN active : active[k].assigned_driver = d)
    IN  [n \in DOMAIN keys |-> [driver |-> keys[n], trips |-> driver_trips(table, active, keys[n])]]

\* Mutant of fresh_totals: the accumulators outlive the call.
fresh_totals_stale ==
    [total_miles |-> sim.total_miles, total_idle_minutes |-> sim.total_idle_minutes,
     total_duration |-> sim.total_duration,
     all_delays |-> sim.all_delays, all_utilizations |-> sim.all_utilizations]

\* The accumulators simulate_strategy starts from.
fresh_totals ==
    [total_miles |-> 0, total_idle_minutes |-> 0, total_duration |-> 0,
     all_delays |-> <<>>, all_utilizations |-> <<>>]

\* The strategy returned its table: its loop ran out of trips.
returned == pc = "assign" /\ i > Len(order)

\* Mutant of reseeded: the stream goes on from where it is.
not_reseeded(g) == g

\* set_seed(RANDOM_SEED) at the top of simulate_strategy
reseeded(g) == set_seed(RANDOM_SEED)

\* simulate_strategy is called with the table the strategy returned, or once
\* more with the same arguments after a completed run.
simulate_call ==
    /\ raised = ""
    /\ \/ returned
       \/ pc = "supplied"
       \/ mode = "direct" /\ pc = "done" /\ Len(history) = 1
    /\ rng' = reseeded(rng)
    /\ IF assignments = <<>>
       THEN \* pd.DataFrame([]) has no trip_id column to merge on
            /\ pc' = "raised"
            /\ raised' = "KeyError"
            /\ UNCHANGED <<sim, obs>>
       ELSE LET active == active_rows(trips, merge(trips, assignments, 1))
            IN  /\ sim' = [strategy_name |-> assignments[1].strategy,
                           active |-> active,
                           groups |-> groupby(trips, active),
                           g |-> 1, j |-> 1,
                           current_loc |-> 0, current_time |-> 0,
                           total_miles |-> fresh_totals.total_miles,
                           total_idle_minutes |-> fresh_totals.total_idle_minutes,
                           total_duration |-> fresh_totals.total_duration,
                           all_delays |-> fresh_totals.all_delays,
                           all_utilizations |-> fresh_totals.all_utilizations,
                           resim |-> (pc = "done")]
                /\ obs' = <<>>
                /\ pc' = "simulate"
                /\ raised' = raised
    /\ UNCHANGED <<inputVars, initial_locations, asgVars, result, results, history>>

\* deadhead_time_mins = (deadhead_miles / avg_speed_mph) * 60
deadhead_time(miles) == (miles * MinutesPerHour) \div avg_speed_mph

\* x *= np.random.normal(1.0, sigma) when add_noise, and x otherwise.
with_noise(x, noisy, g, sigmaPct) ==
    IF noisy THEN (x * np_random_normal(g, sigmaPct)) \div 100 ELSE x

\* Mutant of clock_for: the clock is reset for every trip.
clock_for_always_reset(time, trip) == start_time(trip.scheduled_pickup_time)

\* The clock a trip is replayed from: the driver's clock, reset at a day boundary.
clock_for(time, trip) ==
    IF date(time) < date(trip.scheduled_pickup_time)
    THEN start_time(trip.scheduled_pickup_time)
    ELSE time

\* Mutant of pickup_time: the driver picks up on arrival.
pickup_time_on_arrival(arrival, trip) == arrival

\* Mutant of pickup_time: five minutes of boarding after the later of the two.
pickup_time_boarding(arrival, trip) == Max(arrival, trip.scheduled_pickup_time) + 5

\* max(arrival_at_pickup, trip["scheduled_pickup_time"])
pickup_time(arrival, trip) == Max(arrival, trip.scheduled_pickup_time)

\* Mutant of trip_utilization: the ratio upside down.
trip_utilization_inverted(passengers, capacity) == Frac(capacity, passengers)

\* trip["num_passengers"] / driver_capacity
trip_utilization(passengers, capacity) == Frac(passengers, capacity)

\* The replay of one trip from a driver's location and clock: the values of
\* the loop body's locals.
replay(trip, driver, loc, time, noisy, g) ==
    LET clock == clock_for(time, trip)
        deadhead_miles == haversine_distance(loc, trip.pickup_lat)
        deadhead_time_mins == with_noise(deadhead_time(deadhead_miles), noisy, g, 10)
        g1 == IF noisy THEN advance(g) ELSE g
        arrival_at_pickup == clock + deadhead_time_mins
        actual_pickup_time == pickup_time(arrival_at_pickup, trip)
        trip_duration == with_noise(trip.trip_duration_minutes[1], noisy, g1, 5)
    IN  [trip_id |-> trip.trip_id,
         driver |-> driver,
         loc_before |-> loc,
         time_before |-> time,
         clock |-> clock,
         deadhead_miles |-> deadhead_miles,
         arrival_at_pickup |-> arrival_at_pickup,
         actual_pickup_time |-> actual_pickup_time,
         idle_mins |-> actual_pickup_time - arrival_at_pickup,
         delay_mins |-> actual_pickup_time - trip.scheduled_pickup_time,
         trip_duration |-> trip_duration,
         actual_dropoff_time |-> actual_pickup_time + trip_duration,
         miles |-> deadhead_miles + trip.distance_miles,
         utilization |-> trip_utilization(trip.num_passengers, driver_capacities[driver]),
         rng |-> IF noisy THEN advance(g1) ELSE g1]

\* Mutant of next_time: the clock stops at the pickup.
next_time_pickup(r) == r.actual_pickup_time

\* current_time = actual_dropoff_time
next_time(r) == r.actual_dropoff_time

\* Mutant of location_before: only the first driver starts from its own place.
location_before_shared(first, driver, current_loc) ==
    IF first /\ sim.g = 1 THEN initial_locations[driver] ELSE current_loc

\* current_loc when a trip is replayed: initial_locations[driver] for the
\* first trip of a driver's group, the last dropoff point afterwards.
location_before(first, driver, current_loc) ==
    IF first THEN initial_locations[driver] ELSE current_loc

\* One iteration of the inner loop, with the set-up of a driver's group when
\* the trip is the group's first.
simulate_trip ==
    /\ pc = "simulate"
    /\ sim.g <= Len(sim.groups)
    /\ LET group == sim.groups[sim.g]
           driver == group.driver
           trip == trips[group.trips[sim.j]]
           first == sim.j = 1
           loc == location_before(first, driver, sim.current_loc)
           time == IF first
                   THEN start_time(trips[group.trips[1]].scheduled_pickup_time)
                   ELSE sim.current_time
           last == sim.j = Len(group.trips)
       IN  IF ~notna(trip.trip_duration_minutes)
           THEN \* timedelta(minutes=nan)
                /\ pc' = "raised"
                /\ raised' = "ValueError"
                /\ UNCHANGED <<rng, sim, obs>>
           ELSE LET r == replay(trip, driver, loc, time, add_noise, rng)
                IN  /\ sim' = [sim EXCEPT
                                 !.total_miles = @ + r.miles,
                                 !.total_idle_minutes = @ + r.idle_mins,
                                 !.total_duration = @ + r.trip_duration,
                                 !.all_delays = Append(@, r.delay_mins),
                                 !.all_utilizations = Append(@, r.utilization),
                                 !.current_loc = trip.dropoff_lat,
                                 !.current_time = next_time(r),
                                 !.g = IF last THEN @ + 1 ELSE @,
                                 !.j = IF last THEN 1 ELSE @ + 1]
                    /\ obs' = Append(obs, r)
                    /\ rng' = r.rng
                    /\ UNCHANGED <<pc, raised>>
    /\ UNCHANGED <<inputVars, initial_locations, asgVars, result, results, history>>

\* Mutant of on_time_rate: the on-time trips are counted, not averaged.
on_time_rate_count(all_delays) ==
    Frac(Cardinality({k \in DOMAIN all_delays : all_delays[k] <= OnTimeThreshold}), 1)

\* np.mean([1 if d <= 10 else 0 for d in all_delays]) if all_delays else 0
on_time_rate(all_delays) ==
    IF all_delays # <<>>
    THEN np_mean([k \in DOMAIN all_delays |->
                     IF all_delays[k] <= OnTimeThreshold THEN Frac(1, 1) ELSE Frac(0, 1)])
    ELSE Frac(0, 1)

\* np.mean(all_utilizations) if all_utilizations else 0
utilization_rate(all_utilizations) ==
    IF all_utilizations # <<>> THEN np_mean(all_utilizations) ELSE Frac(0, 1)

\* total / len(active) if len(active) > 0 else 0
per_trip(total, n) == IF n > 0 THEN Frac(total, n) ELSE Frac(0, 1)

\* The SimulationResult built from the locals.
SimulationResult(s) ==
    [strategy_name |-> s.strategy_name,
     total_trips |-> Len(s.active),
     on_time_rate |-> on_time_rate(s.all_delays),
     total_miles |-> s.total_miles,
     avg_trip_duration |-> per_trip(s.total_duration, Len(s.active)),
     avg_idle_time |-> per_trip(s.total_idle_minutes, Len(s.active)),
     utilization_rate |-> utilization_rate(s.all_utilizations)]

\* The loops are over: aggregate and return.
simulate_return ==
    /\ pc = "simulate"
    /\ sim.g > Len(sim.groups)
    /\ result' = SimulationResult(sim)
    /\ pc' = "simulated"
    /\ UNCHANGED <<inputVars, initial_locations, asgVars, rng, sim, obs, results,
                   history, raised>>

\* Mutant of percentage: the rate is rounded but not scaled.
percentage_unscaled(rate) == round2(rate)

\* round(rate * 100, 2)
percentage(rate) == round2(FracTimes(rate, 100))

\* SimulationResult.to_dict
to_dict(r) ==
    [strategy |-> r.strategy_name,
     total_trips |-> r.total_trips,
     on_time_rate |-> percentage(r.on_time_rate),
     total_miles |-> round2(Frac(r.total_miles, 1)),
     avg_trip_duration |-> round2(r.avg_trip_duration),
     avg_idle_time |-> round2(r.avg_idle_time),
     utilization_rate |-> percentage(r.utilization_rate)]

\* The caller turns the result into a row: the run is complete.  The record
\* of the run keeps the two dicts simulate_strategy was called with.
collect_result ==
    /\ pc = "simulated"
    /\ results' = Append(results, to_dict(result))
    /\ history' = Append(history, [strategy |-> strategy,
                                   assignments |-> assignments,
                                   picks |-> picks,
                                   initial_locations |-> initial_locations,
                                   driver_capacities |-> driver_capacities,
                                   result |-> result,
                                   resim |-> sim.resim])
    /\ pc' = IF mode = "comparison" THEN "compare" ELSE "done"
    /\ UNCHANGED <<inputVars, initial_locations, asgVars, simVars, raised>>

(***************************************************************************)
(* run_simulation_comparison.                                              *)
(***************************************************************************)
\* [f"DRV_{i:04d}" for i in range(num_drivers)]
driver_list(n) == SubSeq(DriverIds, 1, n)

\* The position of a driver in the list.
index_of(pool, d) == CHOOSE k \in DOMAIN pool : pool[k] = d

\* initial_locations: per driver a latitude and a longitude drawn in turn,
\* from the generator g.
drawn_locations(pool, g) ==
    [d \in Range(pool) |-> np_random_uniform(skip(g, 2 * (index_of(pool, d) - 1)))]

\* driver_capacities: per driver one draw, after the 2 * n draws of the locations.
drawn_capacities(pool, g) ==
    [d \in Range(pool) |-> np_random_choice(skip(g, 2 * Len(pool) + index_of(pool, d) - 1))]

\* The call, up to the first strategy: seed, driver list and the two dicts.
\* Called once, and once more with the same arguments.
run_simulation_comparison ==
    /\ raised = ""
    /\ mode = "comparison"
    /\ \/ pc = "ready"
       \/ pc = "compared" /\ Len(tables) = 1
    /\ drivers' = driver_list(num_drivers)
    /\ initial_locations' = drawn_locations(drivers', set_seed(seed))
    /\ driver_capacities' = drawn_capacities(drivers', set_seed(seed))
    /\ rng' = skip(set_seed(seed), 3 * num_drivers)
    /\ results' = <<>>
    /\ pc' = "compare"
    /\ UNCHANGED <<mode, seed, num_drivers, tables, trips, add_noise, asgVars, sim, obs,
                   result, history, raised>>

\* return pd.DataFrame(results)
comparison_return ==
    /\ mode = "comparison"
    /\ pc = "compare"
    /\ Len(results) = Len(comparison_order)
    /\ tables' = Append(tables, results)
    /\ pc' = "compared"
    /\ UNCHANGED <<mode, seed, num_drivers, trips, drivers, driver_capacities, add_noise,
                   initial_locations, asgVars, simVars, results, history, raised>>

\* A caller's own assignment table for simulate_strategy: at most one row per
\* trip, at least one row, every driver of the pool.
supply_assignments ==
    /\ mode = "direct"
    /\ pc = "ready"
    /\ \E choice \in [DOMAIN trips -> Range(drivers) \cup {"none"}] :
          LET rows == SelectSeq([k \in DOMAIN trips |-> k], LAMBDA k : choice[k] # "none")
          IN  /\ rows # <<>>
              /\ assignments' = [n \in DOMAIN rows |->
                                    assignment_row(trips[rows[n]], choice[rows[n]], "Manual")]
    /\ strategy' = "Manual"
    /\ pc' = "supplied"
    /\ UNCHANGED <<inputVars, initial_locations, order, i, driver_available_at,
                   driver_locations, picks, simVars, results, history, raised>>

\* The steps of the strategies and of simulate_strategy.
Calls ==
    \/ \E s \in StrategyNames : call_strategy(s)
    \/ raise_empty_pool
    \/ assign_fcfs
    \/ assign_nearest
    \/ assign_capacity_aware
    \/ simulate_call
    \/ simulate_trip
    \/ simulate_return
    \/ collect_result

\* assign_fcfs alone, and simulate_strategy on its table.
NextFcfs ==
    \/ call_strategy("FCFS")
    \/ raise_empty_pool
    \/ assign_fcfs
    \/ simulate_call
    \/ simulate_trip
    \/ simulate_return
    \/ collect_result

\* assign_nearest alone, and simulate_strategy on its table.
NextNearest ==
    \/ call_strategy("Nearest")
    \/ raise_empty_pool
    \/ assign_nearest
    \/ simulate_call
    \/ simulate_trip
    \/ simulate_return
    \/ collect_result

\* Direct calls and run_simulation_comparison.
Next ==
    \/ Calls
    \/ run_simulation_comparison
    \/ comparison_return

\* simulate_strategy on a table of the caller's own.
NextCaller ==
    \/ supply_assignments
    \/ simulate_call
    \/ simulate_trip
    \/ simulate_return
    \/ collect_result

(***************************************************************************)
(* Input profiles.                                                         *)
(***************************************************************************)
\* Same-day dispatch: trips 20 minutes apart, each taking 20 minutes, between
\* two places 25 miles apart; up to two drivers, each starting at either place.
Dispatch ==
    [leads |-> {5}, times |-> {480, 500}, pickups |-> {0, 25}, dropoffs |-> {25},
     miles |-> {5}, durations |-> {<<20>>}, passengers |-> {1},
     cancelled |-> BOOLEAN, minTrips |-> 0, maxTrips |-> MaxTrips, pools |-> {0, 1, 2},
     locations |-> {0, 25}, capacities |-> {4}, noise |-> BOOLEAN, seeds |-> {7, 42}]

\* A caller's own assignment table, over the same trips, for drivers starting
\* at one place.
Caller ==
    [leads |-> {5}, times |-> {480, 500}, pickups |-> {0, 25}, dropoffs |-> {25},
     miles |-> {5}, durations |-> {<<20>>}, passengers |-> {1},
     cancelled |-> BOOLEAN, minTrips |-> 1, maxTrips |-> MaxTrips, pools |-> {1, 2},
     locations |-> {0}, capacities |-> {4}, noise |-> BOOLEAN]

\* Capacity matching: one place, passengers of 1 or 3, vehicles of 2, 4 or
\* 1003 seats.
Capacity ==
    [leads |-> {5}, times |-> {480, 500}, pickups |-> {0}, dropoffs |-> {0},
     miles |-> {5}, durations |-> {<<20>>}, passengers |-> {1, 3},
     cancelled |-> BOOLEAN, minTrips |-> 0, maxTrips |-> MaxTrips, pools |-> {0, 1, 2},
     locations |-> {0}, capacities |-> {2, 4, 1003}, noise |-> {FALSE}]

\* Two days: trips at 05:00, 08:00 and 23:50 of day 0 and at 10:00 of day 1.
Overnight ==
    [leads |-> {5}, times |-> {300, 480, 1430, 2040}, pickups |-> {0, 25}, dropoffs |-> {25},
     miles |-> {5}, durations |-> {<<20>>}, passengers |-> {1},
     cancelled |-> {FALSE}, minTrips |-> 0, maxTrips |-> MaxTrips, pools |-> {0, 1, 2},
     locations |-> {0, 25}, capacities |-> {4}, noise |-> {FALSE}]

\* Missing durations: trips with and without a trip_duration_minutes value.
Missing ==
    [leads |-> {5}, times |-> {480, 500}, pickups |-> {0}, dropoffs |-> {25},
     miles |-> {5}, durations |-> {<<20>>, NaN}, passengers |-> {1},
     cancelled |-> BOOLEAN, minTrips |-> 0, maxTrips |-> MaxTrips, pools |-> {0, 1, 2},
     locations |-> {0}, capacities |-> {4}, noise |-> {FALSE}, seeds |-> {42}]

\* A busy pool: up to three trips of 20 or 60 minutes, requested 5 or 30
\* minutes ahead, so that the request order differs from the schedule and a
\* third trip can find both drivers busy.
Busy ==
    [leads |-> {5, 30}, times |-> {480, 500}, pickups |-> {0}, dropoffs |-> {0},
     miles |-> {5}, durations |-> {<<20>>, <<60>>}, passengers |-> {1},
     cancelled |-> {FALSE}, minTrips |-> 0, maxTrips |-> MaxBusyTrips, pools |-> {0, 1, 2},
     locations |-> {0}, capacities |-> {4}, noise |-> {FALSE}]

\* Drifting drivers: trips an hour apart between three places 25 miles from
\* one another, so that a driver is free again where its last trip ended.
Drift ==
    [leads |-> {5}, times |-> {480, 540}, pickups |-> {0, 25}, dropoffs |-> {0, 50},
     miles |-> {5}, durations |-> {<<20>>}, passengers |-> {1},
     cancelled |-> {FALSE}, minTrips |-> 0, maxTrips |-> MaxTrips, pools |-> {0, 1, 2},
     locations |-> {0, 25}, capacities |-> {4}, noise |-> {FALSE}]

Init == InitDirect(Dispatch) \/ InitComparison(Dispatch)

Spec == Init /\ [][Next]_vars

SpecCapacity == InitDirect(Capacity) /\ [][Calls]_vars

SpecOvernight == InitDirect(Overnight) /\ [][Calls]_vars

SpecCaller == InitDirect(Caller) /\ [][NextCaller]_vars

InitMissing == InitDirect(Missing) \/ InitComparison(Missing)

SpecMissing == InitMissing /\ [][Next]_vars

SpecBusy == InitDirect(Busy) /\ [][NextFcfs]_vars

\* One driver at most and trips twenty minutes apart that take twenty minutes
\* or an hour, for each of the three strategies to book a busy driver.
Rebook ==
    [leads |-> {5}, times |-> {480, 500, 520}, pickups |-> {0}, dropoffs |-> {0},
     miles |-> {5}, durations |-> {<<20>>, <<60>>}, passengers |-> {1},
     cancelled |-> {FALSE}, minTrips |-> 0, maxTrips |-> MaxBusyTrips, pools |-> {0, 1},
     locations |-> {0}, capacities |-> {4}, noise |-> {FALSE}]

SpecRebook == InitDirect(Rebook) /\ [][Calls]_vars

SpecDrift == InitDirect(Drift) /\ [][NextNearest]_vars

(***************************************************************************)
(* Properties.                                                             *)
(***************************************************************************)
\* The rows of the table built so far that assign trip row k.
rows_of(k) == {n \in DOMAIN assignments : assignments[n].trip_id = trips[k].trip_id}

non_cancelled == {k \in DOMAIN trips : ~trips[k].is_cancelled}

\* The candidates an iteration of assign_nearest / assign_capacity_aware had.
pick_candidates(p) == IF p.available = <<>> THEN drivers ELSE p.available

C2_DriverInPool ==
    /\ \A n \in DOMAIN assignments : assignments[n].assigned_driver \in Range(drivers)
    /\ \A n \in DOMAIN picks : picks[n].assigned_driver \in Range(drivers)

C2_Witness ==
    /\ strategy = "Nearest"
    /\ \E n \in DOMAIN picks :
          /\ picks[n].available = <<>>
          /\ picks[n].assigned_driver \in Range(drivers)
          /\ \E m \in 1..(n - 1) : picks[m].available # <<>>

\* C3, as claimed: when a candidate of assign_capacity_aware has room for the
\* trip's passengers, the driver it selects has room for them.
C3_SufficientCapacitySelected ==
    strategy = "Capacity-Aware" =>
        \A n \in DOMAIN picks :
            LET passengers == trips[picks[n].trip].num_passengers
            IN  (\E d \in Range(pick_candidates(picks[n])) : driver_capacities[d] >= passengers)
                    => driver_capacities[picks[n].assigned_driver] >= passengers

\* The selection C3 rules out: a driver with 2 seats gets 3 passengers while a
\* candidate with 1003 seats scores the same 1000 and comes later in the pool.
C3_UndersizedSelected ==
    /\ strategy = "Capacity-Aware"
    /\ Len(drivers) = 2
    /\ driver_capacities[drivers[1]] = 2
    /\ driver_capacities[drivers[2]] = TooSmallPenalty + 3
    /\ \E n \in DOMAIN picks :
          /\ trips[picks[n].trip].num_passengers = 3
          /\ Len(pick_candidates(picks[n])) = 2
          /\ picks[n].assigned_driver = drivers[1]

\* Driver d stands at the trip's pickup point and every other driver of the
\* pool is strictly farther, at the iteration recorded in p.
colocated_alone(p, d) ==
    /\ p.locations[d] = trips[p.trip].pickup_lat
    /\ \A e \in Range(drivers) \ {d} :
          haversine_distance(p.locations[e], trips[p.trip].pickup_lat) > 0

\* C4, as claimed: assign_nearest assigns the driver standing at the pickup
\* point when every other driver is strictly farther.
C4_Original ==
    strategy = "Nearest" =>
        \A n \in DOMAIN picks : \A d \in Range(drivers) :
            colocated_alone(picks[n], d) => picks[n].assigned_driver = d

\* C4, amended: assign_nearest assigns the driver standing at the pickup point
\* when every other driver is strictly farther, provided that driver is a
\* candidate (it is available at the scheduled pickup time, or no driver is).
C4_ColocatedCandidateSelected ==
    strategy = "Nearest" =>
        \A n \in DOMAIN picks : \A d \in Range(pick_candidates(picks[n])) :
            colocated_alone(picks[n], d) => picks[n].assigned_driver = d

C4_Witness ==
    /\ strategy = "Nearest"
    /\ Len(drivers) = 2
    /\ \E n \in DOMAIN picks :
          /\ Len(pick_candidates(picks[n])) = 2
          /\ colocated_alone(picks[n], drivers[2])
          /\ picks[n].assigned_driver = drivers[2]

\* C5, as claimed: without noise, a trip that follows, for the same driver, a
\* trip scheduled on another date is recorded with at most 60 idle minutes.
C5_NoOvernightIdle ==
    ~add_noise =>
        \A n \in 2..Len(obs) :
            (/\ obs[n].driver = obs[n - 1].driver
             /\ date(trips[obs[n - 1].trip_id].scheduled_pickup_time)
                    # date(trips[obs[n].trip_id].scheduled_pickup_time))
                => obs[n].idle_mins <= MinutesPerHour

\* The replay C5 rules out: the previous trip was dropped off after midnight,
\* so the clock is not reset and the hours until the next pickup count as idle.
C5_OvernightIdleCounted ==
    /\ ~add_noise
    /\ \E n \in 2..Len(obs) :
          /\ obs[n].driver = obs[n - 1].driver
          /\ date(trips[obs[n - 1].trip_id].scheduled_pickup_time)
                 < date(trips[obs[n].trip_id].scheduled_pickup_time)
          /\ date(obs[n - 1].actual_dropoff_time)
                 = date(trips[obs[n].trip_id].scheduled_pickup_time)
          /\ obs[n].clock = obs[n - 1].actual_dropoff_time
          /\ obs[n].idle_mins > 8 * MinutesPerHour

\* C6: simulate_strategy called twice with the same arguments and noise
\* disabled returns equal results, and run_simulation_comparison called twice
\* with the same trips, fleet size and seed returns equal results and tables.
C6_RepeatedRunsAgree ==
    /\ (mode = "direct" /\ Len(history) = 2 /\ history[2].resim /\ ~add_noise)
           => history[2].result = history[1].result
    /\ (mode = "comparison" /\ Len(history) = 2 * Len(comparison_order))
           => \A k \in DOMAIN comparison_order :
                  history[Len(comparison_order) + k].result = history[k].result
    /\ Len(tables) = 2 => tables[2] = tables[1]

C6_Witness ==
    /\ mode = "direct" /\ Len(history) = 2 /\ history[2].resim /\ ~add_noise
    /\ history[1].result.total_trips = 2
    /\ history[1].result.total_miles > 0

\* A fraction between 0 and 1.
in_unit(x) == x.den > 0 /\ 0 <= x.num /\ x.num <= x.den

\* C7: the on_time_rate of every SimulationResult is between 0 and 1, and is 0
\* when no non-cancelled trip was simulated.
C7_OnTimeRateInUnit ==
    result # NoResult =>
        /\ in_unit(result.on_time_rate)
        /\ result.total_trips = 0 => result.on_time_rate = Frac(0, 1)

C7_Witness ==
    /\ result # NoResult
    /\ result.total_trips = 2
    /\ result.on_time_rate = Frac(1, 2)

\* Every simulated trip has at most as many passengers as its driver has seats.
all_fit ==
    \A n \in DOMAIN sim.active :
        trips[sim.active[n].trip].num_passengers
            <= driver_capacities[sim.active[n].assigned_driver]

\* C8, as claimed: simulating the table of any of the three strategies, with
\* capacities >= 1, gives a utilization_rate between 0 and 1.
C8_Original ==
    pc = "simulated" => in_unit(result.utilization_rate)

\* C8, amended: the utilization_rate is never negative, and is at most 1 when
\* no simulated trip has more passengers than its assigned driver has seats.
C8_UtilizationBounded ==
    pc = "simulated" =>
        /\ result.utilization_rate.den > 0 /\ result.utilization_rate.num >= 0
        /\ all_fit => in_unit(result.utilization_rate)

C8_Witness ==
    /\ pc = "simulated"
    /\ strategy = "FCFS"
    /\ Len(sim.active) = 2
    /\ all_fit
    /\ result.utilization_rate = Frac(5, 8)

\* The non-cancelled trips the assignment table has a row for.
assigned_active == {k \in non_cancelled : rows_of(k) # {}}

\* The trip replayed before obs[n] for the same driver is obs[n - 1].
follows(n) == n > 1 /\ obs[n - 1].driver = obs[n].driver

\* C9: simulate_strategy counts and replays the non-cancelled assigned trips
\* and nothing else: total_trips is their number, every accumulator is the sum
\* over them, and a driver's location and clock pass from one of them to the
\* next (or come from the driver's start) untouched by a cancelled trip.
C9_CancelledExcluded ==
    pc = "simulated" =>
        /\ result.total_trips = Cardinality(assigned_active)
        /\ Len(obs) = result.total_trips
        /\ {obs[n].trip_id : n \in DOMAIN obs} = {trips[k].trip_id : k \in assigned_active}
        /\ result.total_miles = IntSum([n \in DOMAIN obs |-> obs[n].miles])
        /\ sim.total_idle_minutes = IntSum([n \in DOMAIN obs |-> obs[n].idle_mins])
        /\ sim.total_duration = IntSum([n \in DOMAIN obs |-> obs[n].trip_duration])
        /\ sim.all_delays = [n \in DOMAIN obs |-> obs[n].delay_mins]
        /\ sim.all_utilizations = [n \in DOMAIN obs |-> obs[n].utilization]
        /\ \A n \in DOMAIN obs :
              IF follows(n)
              THEN /\ obs[n].loc_before = trips[obs[n - 1].trip_id].dropoff_lat
                   /\ obs[n].time_before = obs[n - 1].actual_dropoff_time
              ELSE /\ obs[n].loc_before = initial_locations[obs[n].driver]
                   /\ obs[n].time_before
                          = start_time(trips[obs[n].trip_id].scheduled_pickup_time)

C9_Witness ==
    /\ pc = "simulated"
    /\ result.total_trips = 1
    /\ \E k \in DOMAIN trips : \E n \in DOMAIN obs :
          /\ trips[k].is_cancelled
          /\ \E m \in rows_of(k) : assignments[m].assigned_driver = obs[n].driver
          /\ trips[k].scheduled_pickup_time < trips[obs[n].trip_id].scheduled_pickup_time

\* The row to_dict made of the result returned last.
last_row == results[Len(results)]

converted == pc \in {"done", "compare", "compared"} /\ results # <<>>

\* C10, as claimed: to_dict reports the two rates multiplied by 100, keeps the
\* strategy name and total_trips, and maps a rate of [0,1] into [0,100].
C10_Original ==
    converted =>
        /\ last_row.strategy = result.strategy_name
        /\ last_row.total_trips = result.total_trips
        /\ last_row.on_time_rate = FracTimes(result.on_time_rate, 100)
        /\ last_row.utilization_rate = FracTimes(result.utilization_rate, 100)

\* x is a number of whole hundredths, at most 0.005 away from 100 * rate.
rounded_percentage(x, rate) ==
    /\ 100 % x.den = 0
    /\ 200 * Abs(x.num * rate.den - 100 * rate.num * x.den) <= x.den * rate.den

\* C10, amended: to_dict reports the two rates multiplied by 100 and rounded to
\* two decimals, keeps the strategy name and total_trips, and maps a rate of
\* [0,1] into [0,100].
C10_RoundedPercentages ==
    converted =>
        /\ last_row.strategy = result.strategy_name
        /\ last_row.total_trips = result.total_trips
        /\ rounded_percentage(last_row.on_time_rate, result.on_time_rate)
        /\ rounded_percentage(last_row.utilization_rate, result.utilization_rate)
        /\ \A x \in {<<last_row.on_time_rate, result.on_time_rate>>,
                     <<last_row.utilization_rate, result.utilization_rate>>} :
              in_unit(x[2]) => FracLeq(Frac(0, 1), x[1]) /\ FracLeq(x[1], Frac(100, 1))

C10_Witness ==
    /\ converted
    /\ in_unit(result.utilization_rate)
    /\ result.utilization_rate.num > 0
    /\ last_row.utilization_rate # FracTimes(result.utilization_rate, 100)
    /\ last_row.on_time_rate = Frac(100, 1)

\* Every aggregate metric of the result is the neutral value 0.
neutral_metrics(r) ==
    /\ r.on_time_rate = Frac(0, 1)
    /\ r.avg_idle_time = Frac(0, 1)
    /\ r.utilization_rate = Frac(0, 1)
    /\ r.avg_trip_duration = Frac(0, 1)

\* C11, as claimed: with an empty trip table or an empty driver pool, running
\* a strategy and simulating its table raises nothing, and the result that
\* comes back has 0 for every aggregate metric.
C11_EmptyInputsDegrade ==
    (mode = "direct" /\ (trips = <<>> \/ drivers = <<>>)) =>
        /\ raised = ""
        /\ pc = "simulated" => neutral_metrics(result)

\* The run C11 rules out: a strategy returned the empty table for an empty
\* trip table, and simulate_strategy raised on it.
C11_EmptyTableRaises ==
    /\ mode = "direct"
    /\ trips = <<>> /\ drivers # <<>>
    /\ strategy \in StrategyNames
    /\ assignments = <<>>
    /\ raised = "KeyError"

\* The strategy's dict after the assignment recorded in picks[n].
available_after(n) ==
    IF n < Len(picks) THEN picks[n + 1].available_at ELSE driver_available_at

missing_duration(k) == ~notna(trips[k].trip_duration_minutes)

\* The strategies' part of C12: a trip without a duration keeps its driver
\* busy for 30 + 10 minutes from the scheduled pickup time.
strategies_default_duration ==
    \A n \in DOMAIN picks :
        missing_duration(picks[n].trip) =>
            available_after(n)[picks[n].assigned_driver]
                = trips[picks[n].trip].scheduled_pickup_time
                      + DefaultTripDuration + TurnaroundBuffer

\* C12, as claimed: a trip without a duration counts as 30 minutes and raises
\* nothing, in the strategies' available_at update and in simulate_strategy's
\* dropoff time.
C12_MissingDurationDefaults ==
    /\ strategies_default_duration
    /\ (trips # <<>> /\ drivers # <<>>) => raised = ""
    /\ ~add_noise =>
           \A n \in DOMAIN obs :
               missing_duration(obs[n].trip_id) =>
                   obs[n].actual_dropoff_time
                       = obs[n].actual_pickup_time + DefaultTripDuration

\* The run C12 rules out: the strategy reckoned 30 minutes for a trip without
\* a duration, and simulate_strategy raised when it replayed that trip.
C12_MissingDurationRaises ==
    /\ mode = "direct"
    /\ raised = "ValueError"
    /\ drivers # <<>>
    /\ picks # <<>>
    /\ \A n \in DOMAIN picks :
          /\ missing_duration(picks[n].trip)
          /\ ~trips[picks[n].trip].is_cancelled
    /\ strategies_default_duration

\* C13: in run_simulation_comparison the location map and the capacity map
\* are those drawn at the start of the call, for the simulation of each of the
\* three strategies: assign_nearest's updates reach none of them.
C13_SharedInitialMaps ==
    mode = "comparison" =>
        /\ \A k \in DOMAIN history :
              /\ history[k].initial_locations = drawn_locations(drivers, set_seed(seed))
              /\ history[k].driver_capacities = drawn_capacities(drivers, set_seed(seed))
        /\ pc # "ready" =>
              /\ initial_locations = drawn_locations(drivers, set_seed(seed))
              /\ driver_capacities = drawn_capacities(drivers, set_seed(seed))
        /\ \A n \in DOMAIN obs :
              ~follows(n) => obs[n].loc_before
                                 = drawn_locations(drivers, set_seed(seed))[obs[n].driver]

C13_Witness ==
    /\ mode = "comparison"
    /\ Len(history) = Len(comparison_order)
    /\ history[2].strategy = "Nearest"
    /\ \E n \in DOMAIN history[2].picks :
          LET p == history[2].picks[n]
          IN  tracked_location(trips[p.trip]) # p.locations[p.assigned_driver]
    /\ history[3].strategy = "Capacity-Aware"
    /\ history[3].initial_locations = history[1].initial_locations
    /\ history[3].result.total_trips > 0

\* A table run_simulation_comparison returned has three rows: FCFS, Nearest,
\* Capacity-Aware.
three_rows_in_order(table) ==
    /\ Len(table) = 3
    /\ table[1].strategy = "FCFS"
    /\ table[2].strategy = "Nearest"
    /\ table[3].strategy = "Capacity-Aware"

proceeds ==
    \/ pc = "simulate" /\ sim.g > Len(sim.groups)
    \/ ENABLED (\/ run_simulation_comparison
                \/ comparison_return
                \/ \E s \in StrategyNames : call_strategy(s)
                \/ assign_fcfs
                \/ assign_nearest
                \/ assign_capacity_aware
                \/ simulate_call
                \/ simulate_trip
                \/ collect_result)

called_twice ==
    /\ mode = "direct"
    /\ Len(history) = 2
    /\ ~history[2].resim
    /\ history[1].strategy \in StrategyNames

\* The picks of a run that were assigned to driver d.
picks_of(ps, d) == {n \in DOMAIN ps : ps[n].assigned_driver = d}

\* The location dict assign_nearest leaves behind, from the dict it was
\* called with and the assignments it made: an assigned driver stands at the
\* dropoff point of its last trip.
moved_locations(ps) ==
    [d \in DOMAIN ps[1].locations |->
        IF picks_of(ps, d) = {}
        THEN ps[1].locations[d]
        ELSE LET last == CHOOSE n \in picks_of(ps, d) : \A m \in picks_of(ps, d) : m <= n
             IN  trips[ps[last].trip].dropoff_lat]

\* C15, as claimed: a strategy leaves the caller's location dict as it was,
\* and called twice with the same argument objects it returns the same table.
C15_Original ==
    /\ (mode = "direct" /\ strategy \in StrategyNames /\ returned /\ picks # <<>>)
           => initial_locations = picks[1].locations
    /\ called_twice => history[2].assignments = history[1].assignments

\* C15, amended: assign_fcfs and assign_capacity_aware leave the caller's
\* dicts as they were and return the same table when called again;
\* assign_nearest writes the dropoff points of the trips it assigns into the
\* location dict it is handed, and returns the same table again when the dict
\* holds the same locations again (as for the copy run_simulation_comparison
\* passes).
C15_PureExceptLocations ==
    /\ (mode = "direct" /\ strategy \in StrategyNames /\ returned /\ picks # <<>>) =>
           /\ strategy # "Nearest" => initial_locations = picks[1].locations
           /\ strategy = "Nearest" => initial_locations = moved_locations(picks)
    /\ called_twice =>
           /\ history[2].driver_capacities = history[1].driver_capacities
           /\ history[1].strategy # "Nearest"
                  => history[2].assignments = history[1].assignments
           /\ (/\ history[1].strategy = "Nearest"
               /\ history[1].picks # <<>>
               /\ history[2].picks[1].locations = history[1].picks[1].locations)
                  => history[2].assignments = history[1].assignments
    /\ (mode = "comparison" /\ Len(history) = 6) =>
           \A k \in 1..3 : history[k + 3].assignments = history[k].assignments

C15_Witness ==
    /\ called_twice
    /\ history[1].strategy = "Capacity-Aware"
    /\ Len(history[1].assignments) = 2
    /\ history[1].assignments[1].assigned_driver # history[1].assignments[2].assigned_driver
    /\ history[2].assignments = history[1].assignments

\* Driver d was free for the trip of the iteration recorded in p.
free_at(p, d) == p.available_at[d] <= trips[p.trip].scheduled_pickup_time

\* C16: assign_fcfs handles the trips, all of them, in non-decreasing
\* requested pickup time, and a trip some driver is free for goes to the first
\* free driver in the order of the pool.
C16_FcfsFirstAvailable ==
    strategy = "FCFS" =>
        /\ \A n \in DOMAIN picks : \A m \in DOMAIN picks :
              n < m => trips[picks[n].trip].requested_pickup_time
                           <= trips[picks[m].trip].requested_pickup_time
        /\ returned /\ drivers # <<>> => {picks[n].trip : n \in DOMAIN picks} = DOMAIN trips
        /\ \A n \in DOMAIN picks :
              (\E d \in Range(drivers) : free_at(picks[n], d)) =>
                  \E k \in DOMAIN drivers :
                      /\ picks[n].assigned_driver = drivers[k]
                      /\ free_at(picks[n], drivers[k])
                      /\ \A j \in 1..(k - 1) : ~free_at(picks[n], drivers[j])

C16_Witness ==
    /\ strategy = "FCFS"
    /\ Len(drivers) = 2
    /\ \E n \in DOMAIN picks : \E m \in DOMAIN picks :
          /\ n < m
          /\ trips[picks[n].trip].scheduled_pickup_time
                 > trips[picks[m].trip].scheduled_pickup_time
          /\ ~free_at(picks[m], drivers[1])
          /\ free_at(picks[m], drivers[2])
          /\ picks[m].assigned_driver = drivers[2]

\* C17: when no driver is free for a trip, assign_fcfs gives it to the driver
\* with the least available_at of the whole pool, the first of the pool among
\* equals, although that time is after the scheduled pickup time.
C17_FcfsFallbackSoonestFree ==
    strategy = "FCFS" =>
        \A n \in DOMAIN picks :
            (\A d \in Range(drivers) : ~free_at(picks[n], d)) =>
                \E k \in DOMAIN drivers :
                    /\ picks[n].assigned_driver = drivers[k]
                    /\ \A j \in DOMAIN drivers :
                          picks[n].available_at[drivers[k]] <= picks[n].available_at[drivers[j]]
                    /\ \A j \in 1..(k - 1) :
                          picks[n].available_at[drivers[j]] > picks[n].available_at[drivers[k]]
                    /\ picks[n].available_at[drivers[k]]
                          > trips[picks[n].trip].scheduled_pickup_time

C17_Witness ==
    /\ strategy = "FCFS"
    /\ Len(drivers) = 2
    /\ \E n \in DOMAIN picks :
          /\ \A d \in Range(drivers) : ~free_at(picks[n], d)
          /\ picks[n].available_at[drivers[2]] < picks[n].available_at[drivers[1]]
          /\ picks[n].assigned_driver = drivers[2]

\* The duration of the trip in row k, 30 minutes when it has none.
duration_or_default(k) ==
    IF missing_duration(k) THEN 30 ELSE trips[k].trip_duration_minutes[1]

\* C18: in each strategy every driver starts at the sentinel, which is before
\* every trip, and an assignment sets the assigned driver's available_at to
\* the trip's scheduled pickup time + duration + 10 minutes and no other entry.
C18_AvailableAtUpdate ==
    strategy \in StrategyNames =>
        /\ (pc = "assign" /\ i = 1) =>
               \A d \in Range(drivers) : driver_available_at[d] = datetime_min
        /\ picks # <<>> =>
               \A d \in Range(drivers) :
                   /\ picks[1].available_at[d] = datetime_min
                   /\ free_at(picks[1], d)
        /\ \A n \in DOMAIN picks : \A d \in Range(drivers) :
               available_after(n)[d] =
                   IF d = picks[n].assigned_driver
                   THEN trips[picks[n].trip].scheduled_pickup_time
                            + duration_or_default(picks[n].trip) + 10
                   ELSE picks[n].available_at[d]

C18_Witness ==
    /\ strategy = "Capacity-Aware"
    /\ Len(drivers) = 2
    /\ Len(picks) = 2
    /\ picks[1].assigned_driver = drivers[1]
    /\ ~missing_duration(picks[1].trip)
    /\ picks[2].available_at[drivers[1]] = trips[picks[1].trip].scheduled_pickup_time + 30
    /\ picks[2].available_at[drivers[2]] = datetime_min
    /\ picks[2].assigned_driver = drivers[2]
    /\ driver_available_at[drivers[2]] = trips[picks[2].trip].scheduled_pickup_time + 40

\* The candidates of the iteration recorded in p: the free drivers, or the
\* whole pool when none is free.
candidate_set(p) ==
    IF \E d \in Range(drivers) : free_at(p, d)
    THEN {d \in Range(drivers) : free_at(p, d)}
    ELSE Range(drivers)

\* The distance from driver d's tracked location to the pickup point, at the
\* iteration recorded in p.
pickup_distance(p, d) == haversine_distance(p.locations[d], trips[p.trip].pickup_lat)

\* C19: assign_nearest handles the trips in scheduled order and gives each to
\* a candidate at the least distance from the pickup point, a driver's
\* location being the one it was called with until its first assignment and
\* the dropoff point of its last assigned trip afterwards.
C19_NearestTracked ==
    strategy = "Nearest" =>
        /\ \A n \in DOMAIN picks : \A m \in DOMAIN picks :
              n < m => trips[picks[n].trip].scheduled_pickup_time
                           <= trips[picks[m].trip].scheduled_pickup_time
        /\ \A n \in DOMAIN picks :
              /\ picks[n].assigned_driver \in candidate_set(picks[n])
              /\ \A e \in candidate_set(picks[n]) :
                    pickup_distance(picks[n], picks[n].assigned_driver)
                        <= pickup_distance(picks[n], e)
              /\ n > 1 => picks[n].locations = moved_locations(SubSeq(picks, 1, n - 1))
        /\ picks # <<>> => driver_locations = moved_locations(picks)

C19_Witness ==
    /\ strategy = "Nearest"
    /\ Len(drivers) = 2
    /\ Len(picks) = 2
    /\ picks[1].assigned_driver = drivers[2]
    /\ candidate_set(picks[2]) = Range(drivers)
    /\ pickup_distance(picks[1], drivers[2]) < pickup_distance(picks[1], drivers[1])
    /\ haversine_distance(picks[1].locations[drivers[2]], trips[picks[2].trip].pickup_lat)
           < haversine_distance(picks[1].locations[drivers[1]], trips[picks[2].trip].pickup_lat)
    /\ pickup_distance(picks[2], drivers[1]) < pickup_distance(picks[2], drivers[2])
    /\ picks[2].assigned_driver = drivers[1]

\* The candidates of the iteration recorded in p whose vehicle seats the
\* trip's passengers.
fitting(p) ==
    {d \in candidate_set(p) : driver_capacities[d] >= trips[p.trip].num_passengers}

\* Driver e comes before driver d in the pool.
before(e, d) == index_of(drivers, e) < index_of(drivers, d)

\* C20, as claimed: among the candidates with room for the passengers,
\* assign_capacity_aware selects one with the least excess capacity, and the
\* first in candidate order among those of equal excess.
C20_MinimalExcessSelected ==
    strategy = "Capacity-Aware" =>
        \A n \in DOMAIN picks :
            fitting(picks[n]) # {} =>
                /\ picks[n].assigned_driver \in fitting(picks[n])
                /\ \A e \in fitting(picks[n]) :
                      /\ driver_capacities[picks[n].assigned_driver] <= driver_capacities[e]
                      /\ before(e, picks[n].assigned_driver)
                             => driver_capacities[e]
                                    > driver_capacities[picks[n].assigned_driver]

\* The selection C20 rules out: the only candidate with room has 1000 seats
\* to spare, scores 1000 like the driver that is too small, and comes second.
C20_ExcessTiesPenalty ==
    /\ strategy = "Capacity-Aware"
    /\ Len(drivers) = 2
    /\ \E n \in DOMAIN picks :
          /\ fitting(picks[n]) = {drivers[2]}
          /\ candidate_set(picks[n]) = Range(drivers)
          /\ driver_capacities[drivers[2]] - trips[picks[n].trip].num_passengers
                 = TooSmallPenalty
          /\ picks[n].assigned_driver = drivers[1]

\* The replay ran without noise on trips of non-negative duration.
plain_replay ==
    /\ ~add_noise
    /\ \A n \in DOMAIN obs : obs[n].trip_duration >= 0

\* The trip replayed at n is scheduled on a later date than the driver's clock.
day_boundary(n) == date(obs[n].time_before) < date(trips[obs[n].trip_id].scheduled_pickup_time)

\* C21: without noise and with non-negative durations, a driver never serves
\* two trips at once: the actual pickup of each of its trips is not before
\* the actual dropoff of its previous trip, day-boundary resets included.
C21_NoOverlap ==
    plain_replay =>
        \A n \in DOMAIN obs :
            follows(n) => obs[n].actual_pickup_time >= obs[n - 1].actual_dropoff_time

\* A driver was replayed on two trips of which the second was scheduled
\* before the first was dropped off, and picked it up after that dropoff.
C21_Witness ==
    /\ plain_replay
    /\ \E n \in DOMAIN obs :
          /\ follows(n)
          /\ trips[obs[n].trip_id].scheduled_pickup_time < obs[n - 1].actual_dropoff_time
          /\ obs[n].actual_pickup_time >= obs[n - 1].actual_dropoff_time

\* C22: for every replayed trip the actual pickup time is the later of the
\* arrival time and the scheduled pickup time, so it is never before the
\* scheduled time, and the delay and idle minutes recorded are both >= 0.
C22_PickupIsLaterOfTwo ==
    \A n \in DOMAIN obs :
        LET o == obs[n]
            scheduled == trips[o.trip_id].scheduled_pickup_time
        IN  /\ o.actual_pickup_time \in {o.arrival_at_pickup, scheduled}
            /\ o.actual_pickup_time >= o.arrival_at_pickup
            /\ o.actual_pickup_time >= scheduled
            /\ o.delay_mins = o.actual_pickup_time - scheduled
            /\ o.idle_mins = o.actual_pickup_time - o.arrival_at_pickup
            /\ o.delay_mins >= 0
            /\ o.idle_mins >= 0

\* One replay holds a trip whose driver arrived early and waited, and a trip
\* whose driver arrived after the scheduled time.
C22_Witness ==
    /\ \E n \in DOMAIN obs :
          /\ obs[n].arrival_at_pickup < trips[obs[n].trip_id].scheduled_pickup_time
          /\ obs[n].idle_mins > 0
    /\ \E n \in DOMAIN obs :
          /\ obs[n].arrival_at_pickup > trips[obs[n].trip_id].scheduled_pickup_time
          /\ obs[n].delay_mins > 0

\* The later of an hour before minute t and 06:00:00 on the date of minute t.
hour_before_or_six(t) ==
    LET midnight == t - (t % (24 * 60))
        six == midnight + 6 * 60
    IN  IF t - 60 >= six THEN t - 60 ELSE six

\* C23: the clock a driver's first trip is replayed from, and the clock after
\* each day-boundary reset, is the later of that trip's scheduled pickup time
\* minus one hour and 06:00:00 on its scheduled date; the driver's location
\* before its first trip is its initial location.
C23_StartClockAndLocation ==
    \A n \in DOMAIN obs :
        LET scheduled == trips[obs[n].trip_id].scheduled_pickup_time
        IN  /\ ~follows(n) =>
                  /\ obs[n].clock = hour_before_or_six(scheduled)
                  /\ obs[n].loc_before = initial_locations[obs[n].driver]
            /\ follows(n) /\ day_boundary(n) =>
                  obs[n].clock = hour_before_or_six(scheduled)

\* A driver started at 06:00 for a trip scheduled at 05:00, away from the
\* pickup point, and its clock was reset to an hour before its trip of the
\* next day.
C23_Witness ==
    \E n \in DOMAIN obs :
        /\ follows(n)
        /\ ~follows(n - 1)
        /\ day_boundary(n)
        /\ obs[n - 1].clock > trips[obs[n - 1].trip_id].scheduled_pickup_time - 60
        /\ obs[n - 1].loc_before # trips[obs[n - 1].trip_id].pickup_lat
        /\ obs[n].clock = trips[obs[n].trip_id].scheduled_pickup_time - 60
        /\ obs[n].clock # obs[n].time_before

\* C24, as claimed: the seed passed to run_simulation_comparison determines
\* the driver attribute draws and every per-trip noise draw of the three
\* simulations, each of which starts from the stream freshly seeded with it.
C24_SingleSeed ==
    mode = "comparison" =>
        /\ pc \in {"compare", "simulate", "simulated"} =>
              /\ initial_locations = drawn_locations(drivers, set_seed(seed))
              /\ driver_capacities = drawn_capacities(drivers, set_seed(seed))
        /\ pc = "simulate" /\ obs = <<>> => rng = set_seed(seed)
        /\ add_noise => \A n \in DOMAIN obs : obs[n].rng.seed = seed

\* The run C24 rules out: the comparison was called with a seed other than
\* RANDOM_SEED, the attributes were drawn from the stream of that seed, and
\* the noise of a simulation was drawn from the stream of RANDOM_SEED.
C24_NoiseFromConfigSeed ==
    /\ mode = "comparison"
    /\ seed # RANDOM_SEED
    /\ add_noise
    /\ initial_locations = drawn_locations(drivers, set_seed(seed))
    /\ driver_capacities = drawn_capacities(drivers, set_seed(seed))
    /\ obs # <<>>
    /\ obs[1].rng = skip(set_seed(RANDOM_SEED), 2)

\* C25, as claimed: in every strategy a driver's available_at value never
\* decreases: each assignment leaves every driver's value at or above the
\* value it had before, so a driver once recorded as busy until T is not
\* among the available drivers of a later trip scheduled before T.
C25_AvailableAtNeverDecreases ==
    \A n \in DOMAIN picks :
        \A d \in Range(drivers) :
            /\ available_after(n)[d] >= picks[n].available_at[d]
            /\ \A m \in DOMAIN picks :
                  m > n /\ d \in Range(picks[m].available)
                      => picks[n].available_at[d] <= trips[picks[m].trip].scheduled_pickup_time

\* The updates C25 rules out: a driver busy until after a trip's scheduled
\* pickup is assigned that trip because no driver is available, its
\* available_at value is set to an earlier time than the one it had, and it
\* is then available for a trip scheduled before the time it was busy until.
C25_FallbackMovesBack ==
    \E n \in DOMAIN picks :
        LET d == picks[n].assigned_driver
        IN  /\ picks[n].available = <<>>
            /\ picks[n].available_at[d] > trips[picks[n].trip].scheduled_pickup_time
            /\ available_after(n)[d] < picks[n].available_at[d]
            /\ \E m \in DOMAIN picks :
                  /\ m > n
                  /\ d \in Range(picks[m].available)
                  /\ picks[n].available_at[d] > trips[picks[m].trip].scheduled_pickup_time

\* The clock of the trip replayed at n was set for it: the trip is the
\* driver's first, or the clock was reset at a day boundary.
clock_set_for(n) == ~follows(n) \/ day_boundary(n)

\* 06:00:00 on the date of minute t.
six_oclock(t) == t - (t % (24 * 60)) + 6 * 60

\* C26, as claimed: the clock set at a driver's start and at every
\* day-boundary reset is never later than the scheduled pickup time of the
\* trip it is set for, whatever the time of day, so a driver with no deadhead
\* distance is not late for that trip.
C26_Original ==
    \A n \in DOMAIN obs :
        clock_set_for(n) =>
            /\ obs[n].clock <= trips[obs[n].trip_id].scheduled_pickup_time
            /\ obs[n].deadhead_miles = 0 => obs[n].delay_mins = 0

\* C26, amended: for a trip scheduled at or after 06:00:00 the clock set at
\* the start or at a reset is not later than the scheduled pickup time, and
\* a driver with no deadhead distance is not late; for a trip scheduled
\* before 06:00:00 the clock is set to 06:00:00 of that date, and the driver
\* is late by at least the time from the scheduled pickup to 06:00:00.
C26_ClockNotLaterFromSix ==
    \A n \in DOMAIN obs :
        LET scheduled == trips[obs[n].trip_id].scheduled_pickup_time
        IN  clock_set_for(n) =>
                IF scheduled >= six_oclock(scheduled)
                THEN /\ obs[n].clock <= scheduled
                     /\ obs[n].deadhead_miles = 0 => obs[n].delay_mins = 0
                ELSE /\ obs[n].clock = six_oclock(scheduled)
                     /\ obs[n].delay_mins >= six_oclock(scheduled) - scheduled

\* A driver with no deadhead distance was an hour late for its first trip,
\* scheduled at 05:00, and after a reset on time for a trip of the next day.
C26_Witness ==
    \E n \in DOMAIN obs :
        /\ follows(n)
        /\ ~follows(n - 1)
        /\ trips[obs[n - 1].trip_id].scheduled_pickup_time
               < six_oclock(trips[obs[n - 1].trip_id].scheduled_pickup_time)
        /\ obs[n - 1].deadhead_miles = 0
        /\ obs[n - 1].delay_mins = 60
        /\ day_boundary(n)
        /\ obs[n].deadhead_miles = 0
        /\ obs[n].delay_mins = 0

\* C27: without noise and with non-negative durations, a driver's clock never
\* moves backward over its trips: the clock a trip is replayed from, reset or
\* not, is not before the clock the driver had, the dropoff that becomes the
\* new clock is not before it, and the next trip takes over from that dropoff.
C27_ClockMonotone ==
    plain_replay =>
        \A n \in DOMAIN obs :
            /\ obs[n].time_before <= obs[n].clock
            /\ obs[n].clock <= obs[n].actual_dropoff_time
            /\ follows(n) => obs[n - 1].actual_dropoff_time <= obs[n].time_before

\* A day-boundary reset replaced a driver's clock, the time of its last
\* dropoff, by a later one.
C27_Witness ==
    /\ plain_replay
    /\ \E n \in DOMAIN obs :
          /\ follows(n)
          /\ day_boundary(n)
          /\ obs[n].time_before = obs[n - 1].actual_dropoff_time
          /\ obs[n].clock > obs[n].time_before

\* Two assignment tables map every trip to the same driver.
same_mapping(a, b) ==
    \A k \in DOMAIN trips :
        {a[n].assigned_driver : n \in {m \in DOMAIN a : a[m].trip_id = trips[k].trip_id}}
            = {b[n].assigned_driver : n \in {m \in DOMAIN b : b[m].trip_id = trips[k].trip_id}}

\* Every field of a SimulationResult except the strategy name.
metrics(r) == [r EXCEPT !.strategy_name = ""]

\* Two completed runs were simulated from the same driver attributes and
\* from tables that map every trip to the same driver.
same_simulation_inputs(j, k) ==
    /\ same_mapping(history[j].assignments, history[k].assignments)
    /\ history[j].initial_locations = history[k].initial_locations
    /\ history[j].driver_capacities = history[k].driver_capacities

\* C28: with the same trips, initial locations, capacities and noise setting,
\* two assignment tables that map every trip to the same driver yield
\* SimulationResults equal in every field except the strategy name, whichever
\* strategy produced the tables and whatever ran before.
C28_SameMappingSameMetrics ==
    \A j, k \in DOMAIN history :
        same_simulation_inputs(j, k)
            => metrics(history[j].result) = metrics(history[k].result)

\* With noise on, two different strategies produced tables with the same
\* mapping of two replayed trips, one after the other, and a third run with
\* another mapping gave other metrics.
C28_Witness ==
    /\ add_noise
    /\ \E j, k, l \in DOMAIN history :
          /\ j < k
          /\ history[j].strategy # history[k].strategy
          /\ same_simulation_inputs(j, k)
          /\ history[j].result.total_trips = 2
          /\ metrics(history[j].result) = metrics(history[k].result)
          /\ ~same_mapping(history[j].assignments, history[l].assignments)
          /\ metrics(history[l].result) # metrics(history[j].result)

\* C29: for every replayed trip at most one of idle minutes and delay minutes
\* is positive: a trip with idle > 0 has delay = 0, a trip with delay > 0 has
\* idle = 0.
C29_IdleOrDelay ==
    \A n \in DOMAIN obs :
        /\ obs[n].idle_mins > 0 => obs[n].delay_mins = 0
        /\ obs[n].delay_mins > 0 => obs[n].idle_mins = 0

\* Under noise, a replay recorded a trip with idle time and no delay and a
\* trip with delay and no idle time.
C29_Witness ==
    /\ add_noise
    /\ \E n, m \in DOMAIN obs :
          /\ obs[n].idle_mins > 0
          /\ obs[n].delay_mins = 0
          /\ obs[m].delay_mins > 0
          /\ obs[m].idle_mins = 0

\* What the replay records for a trip that concerns the claims on delays,
\* idle minutes and miles.
recorded(o) ==
    [trip_id |-> o.trip_id, driver |-> o.driver, delay_mins |-> o.delay_mins,
     idle_mins |-> o.idle_mins, miles |-> o.miles, trip_duration |-> o.trip_duration,
     utilization |-> o.utilization]

\* The records of one driver's group replayed on its own, without noise: from
\* the driver's initial location and start clock, trip j onwards.
RECURSIVE replayed_alone(_, _, _, _)
replayed_alone(group, j, loc, time) ==
    IF j > Len(group.trips)
    THEN <<>>
    ELSE LET trip == trips[group.trips[j]]
             r == replay(trip, group.driver, loc, time, FALSE, rng)
         IN  <<recorded(r)>> \o replayed_alone(group, j + 1, trip.dropoff_lat,
                                               r.actual_dropoff_time)

own_records(group) ==
    replayed_alone(group, 1, initial_locations[group.driver],
                   start_time(trips[group.trips[1]].scheduled_pickup_time))

\* The records of the groups replayed alone, put together in a given order.
RECURSIVE records_in(_)
records_in(groups) ==
    IF groups = <<>> THEN <<>> ELSE own_records(Head(groups)) \o records_in(Tail(groups))

\* The result aggregated from a sequence of records.
aggregate(recs) ==
    SimulationResult([strategy_name |-> sim.strategy_name,
                      active |-> sim.active,
                      total_miles |-> IntSum([n \in DOMAIN recs |-> recs[n].miles]),
                      total_idle_minutes |-> IntSum([n \in DOMAIN recs |-> recs[n].idle_mins]),
                      total_duration |-> IntSum([n \in DOMAIN recs |-> recs[n].trip_duration]),
                      all_delays |-> [n \in DOMAIN recs |-> recs[n].delay_mins],
                      all_utilizations |-> [n \in DOMAIN recs |-> recs[n].utilization]])

\* The orders in which the groups of the replay can be processed.
group_orders ==
    {[n \in DOMAIN sim.groups |-> sim.groups[p[n]]] :
        p \in {q \in [DOMAIN sim.groups -> DOMAIN sim.groups] :
                  \A a, b \in DOMAIN sim.groups : q[a] = q[b] => a = b}}

=============================================================================
